---- MODULE Spec2Model ----
(***************************************************************************)
(* A model of go-import-inspector (main.go): the package cache, the        *)
(* dependency manager that builds the import graph (Import, Get) and the   *)
(* recursive reachability count (addDeps, CoundDepsRecursive).             *)
(*                                                                         *)
(* Every call is a stack of frames, one frame per Go call, and a frame's   *)
(* pc names the line of main.go it is about to execute.  The package       *)
(* resolver (go/build's Import) is the environment: a fixed source tree,   *)
(* chosen in Init, that the resolver reads in the same way at every call.  *)
(***************************************************************************)
EXTENDS Naturals, Sequences, FiniteSets, TLC

Nil == "nil"

\* main.go:71, the pseudo-package of cgo, which Import skips
Sentinel == "C"

\* the packages of the source tree, by canonical import path
Pkgs == {"A", "B", "D"}

\* the directory main passes as srcDir (os.Getwd), and a package's own
Cwd == <<"cwd">>
Dir(p) == <<"src", p>>

\* what an import statement may name: a package by its canonical path, "v" (a
\* path that A vendors: from A's directory it is B, from elsewhere D), "X"
\* (no such package) and "C"
ImportIds == Pkgs \cup {"v", "X", Sentinel}

\* what a session asks for: a package, a path that names none, and "Bad", a
\* directory that is found and whose files do not parse
RootIds == {"A", "B", "X", "Bad"}

\* the most import statements the source tree holds, all packages together
MaxImports == 2

ImportLists(n) == UNION {[1..k -> ImportIds] : k \in 0..n}

EmptyMap == [x \in {} |-> Nil]

MapPut(f, k, v) == [x \in DOMAIN f \cup {k} |-> IF x = k THEN v ELSE f[x]]

\* the source trees over the packages S that hold at most n import statements
RECURSIVE Trees(_, _)
Trees(S, n) ==
    IF S = {} THEN {EmptyMap}
    ELSE LET p == CHOOSE x \in S : TRUE IN
         UNION {{MapPut(f, p, l) : f \in Trees(S \ {p}, n - Len(l))} :
                l \in ImportLists(n)}

SourceTrees == Trees(Pkgs, MaxImports)

\* the threads of control that call into the DependencyManager
Threads == {"t1"}

VARIABLES
    imports,        \* the source tree: package -> its import statements
    packages,       \* PackageCache.packages: canonical path -> descriptor
    dependencies,   \* DependencyManager.dependencies: path -> set of paths
    pmu,            \* PackageCache.mu: the thread holding it, or Nil
    mu,             \* DependencyManager.mu: the thread holding it, or Nil
    stack,          \* per thread, its call stack (the last frame is running)
    ret,            \* per thread, what the call that returned last returned
    call,           \* per thread, the top-level call it is in or was last in
    log,            \* per thread, the resolver calls of that top-level call
    visited         \* per thread, the deps map of its CoundDepsRecursive call

vars == <<imports, packages, dependencies, pmu, mu, stack, ret, call, log, visited>>

----------------------------------------------------------------------------
\* The resolver: go/build's Import, as main.go calls it.

\* where the resolver finds path when asked from srcDir (Nil: nowhere)
Locate(path, srcDir) ==
    CASE path \in Pkgs -> path
      [] path = "v"    -> IF srcDir = Dir("A") THEN "B" ELSE "D"
      [] path = "Bad"  -> "Bad"
      [] OTHER         -> Nil

Err(kind, path, srcDir) == [kind |-> kind, path |-> path, srcDir |-> srcDir]

\* a nil error and a nil *build.Package
NoErr == [kind |-> Nil, path |-> Nil, srcDir |-> <<>>]
NoPkg == [ImportPath |-> Nil, Dir |-> <<>>, Imports |-> <<>>]

Descriptor(id, ims) == [ImportPath |-> id, Dir |-> Dir(id), Imports |-> ims]

\* build.Import(path, srcDir, mode): a descriptor or an error; FindOnly
\* locates the package and does not read its files
BuildImport(path, srcDir, findOnly) ==
    LET id == Locate(path, srcDir) IN
    IF id = Nil
      THEN [pkg |-> NoPkg, err |-> Err("NotFound", path, srcDir)]
    ELSE IF findOnly
      THEN [pkg |-> Descriptor(id, <<>>), err |-> NoErr]
    ELSE IF id \notin Pkgs
      THEN [pkg |-> NoPkg, err |-> Err("ParseFailure", path, srcDir)]
    ELSE [pkg |-> Descriptor(id, imports[id]), err |-> NoErr]

LogEntry(path, srcDir, findOnly) ==
    [path |-> path, srcDir |-> srcDir, findOnly |-> findOnly,
     err |-> BuildImport(path, srcDir, findOnly).err]

----------------------------------------------------------------------------
\* Maps, frames and returns.

\* a cache that never finds anything
CacheLookupMiss(id) == [pkg |-> NoPkg, ok |-> FALSE]

\* PackageCache.Get's two results
CacheLookup(id) ==
    IF id \in DOMAIN packages
      THEN [pkg |-> packages[id], ok |-> TRUE]
      ELSE [pkg |-> NoPkg, ok |-> FALSE]

\* m.dependencies[id] as Go reads it: a missing key reads as the nil map
EdgesOf(id) == IF id \in DOMAIN dependencies THEN dependencies[id] ELSE {}

\* the edge recorded the wrong way round, from the imported package
AddEdgeReversed(deps, from, to) ==
    MapPut(deps, to, (IF to \in DOMAIN deps THEN deps[to] ELSE {}) \cup {from})

\* the entry made anew at every edge (line 81's check left out)
AddEdgeOverwrite(deps, from, to) == MapPut(deps, from, {to})

\* m.dependencies[from][to] = struct{}{}, the entry made when it is missing
AddEdge(deps, from, to) ==
    MapPut(deps, from, (IF from \in DOMAIN deps THEN deps[from] ELSE {}) \cup {to})

Frame(fn, pc, path, srcDir) ==
    [fn |-> fn, pc |-> pc, path |-> path, srcDir |-> srcDir,
     pkg |-> NoPkg, i |-> 1, imp |-> Nil, rest |-> {}, done |-> {}]

NoRet == [pkg |-> NoPkg, deps |-> {}, err |-> NoErr, n |-> 0]

Depth(t) == Len(stack[t])
Top(t) == stack[t][Depth(t)]
Running(t, fn, pc) == Depth(t) > 0 /\ Top(t).fn = fn /\ Top(t).pc = pc

SetTop(t, f) == stack' = [stack EXCEPT ![t][Depth(t)] = f]
Push(t, f, g) == stack' = [stack EXCEPT ![t] = Append([@ EXCEPT ![Depth(t)] = f], g)]
Return(t, val) ==
    /\ stack' = [stack EXCEPT ![t] = SubSeq(@, 1, Depth(t) - 1)]
    /\ ret' = [ret EXCEPT ![t] = val]

----------------------------------------------------------------------------
\* DependencyManager.Import

\* line 58-61
ImportResolve(t) ==
    /\ Running(t, "Import", "resolve")
    /\ LET f == Top(t)
           r == BuildImport(f.path, f.srcDir, FALSE) IN
       /\ log' = [log EXCEPT ![t] = Append(@, LogEntry(f.path, f.srcDir, FALSE))]
       /\ IF r.err # NoErr
            THEN Return(t, [NoRet EXCEPT !.err = r.err])
            ELSE /\ SetTop(t, [f EXCEPT !.pkg = r.pkg, !.pc = "cacheLock"])
                 /\ UNCHANGED ret
    /\ UNCHANGED <<imports, packages, dependencies, pmu, mu, call, visited>>

\* line 63, in PackageCache.Get line 31
ImportCacheLock(t) ==
    /\ Running(t, "Import", "cacheLock")
    /\ pmu = Nil
    /\ pmu' = t
    /\ SetTop(t, [Top(t) EXCEPT !.pc = "cacheGet"])
    /\ UNCHANGED <<imports, packages, dependencies, mu, ret, call, log, visited>>

\* Import without line 68: a package that is not cached is expanded and
\* never stored
ImportCacheGetNoPut(t) ==
    /\ Running(t, "Import", "cacheGet")
    /\ pmu = t
    /\ pmu' = Nil
    /\ LET f == Top(t)
           c == CacheLookup(f.pkg.ImportPath) IN
       IF c.ok
         THEN Return(t, [NoRet EXCEPT !.pkg = c.pkg])
         ELSE /\ SetTop(t, [f EXCEPT !.pc = "loop"])
              /\ UNCHANGED ret
    /\ UNCHANGED <<imports, packages, dependencies, mu, call, log, visited>>

\* Import that returns no descriptor when it finds the package cached
ImportCacheGetHitNil(t) ==
    /\ Running(t, "Import", "cacheGet")
    /\ pmu = t
    /\ pmu' = Nil
    /\ LET f == Top(t)
           c == CacheLookup(f.pkg.ImportPath) IN
       IF c.ok
         THEN Return(t, NoRet)
         ELSE /\ SetTop(t, [f EXCEPT !.pc = "putLock"])
              /\ UNCHANGED ret
    /\ UNCHANGED <<imports, packages, dependencies, mu, call, log, visited>>

\* PackageCache.Get line 32-34, then line 64-66
ImportCacheGet(t) ==
    /\ Running(t, "Import", "cacheGet")
    /\ pmu = t
    /\ pmu' = Nil
    /\ LET f == Top(t)
           c == CacheLookup(f.pkg.ImportPath) IN
       IF c.ok
         THEN Return(t, [NoRet EXCEPT !.pkg = c.pkg])
         ELSE /\ SetTop(t, [f EXCEPT !.pc = "putLock"])
              /\ UNCHANGED ret
    /\ UNCHANGED <<imports, packages, dependencies, mu, call, log, visited>>

\* line 68, in PackageCache.Put line 38
ImportPutLock(t) ==
    /\ Running(t, "Import", "putLock")
    /\ pmu = Nil
    /\ pmu' = t
    /\ SetTop(t, [Top(t) EXCEPT !.pc = "put"])
    /\ UNCHANGED <<imports, packages, dependencies, mu, ret, call, log, visited>>

\* Put without line 40: nothing is stored
ImportPutNoStore(t) ==
    /\ Running(t, "Import", "put")
    /\ pmu = t
    /\ pmu' = Nil
    /\ SetTop(t, [Top(t) EXCEPT !.pc = "loop"])
    /\ UNCHANGED <<imports, packages, dependencies, mu, ret, call, log, visited>>

\* PackageCache.Put line 39-40
ImportPut(t) ==
    /\ Running(t, "Import", "put")
    /\ pmu = t
    /\ pmu' = Nil
    /\ packages' = MapPut(packages, Top(t).pkg.ImportPath, Top(t).pkg)
    /\ SetTop(t, [Top(t) EXCEPT !.pc = "loop"])
    /\ UNCHANGED <<imports, dependencies, mu, ret, call, log, visited>>

\* Import without line 71-73: the cgo pseudo-package is resolved like any
\* other import
ImportLoopNoSkip(t) ==
    /\ Running(t, "Import", "loop")
    /\ LET f == Top(t) IN
       IF f.i > Len(f.pkg.Imports)
         THEN Return(t, [NoRet EXCEPT !.pkg = f.pkg])
         ELSE /\ Push(t, [f EXCEPT !.pc = "called"],
                      Frame("Import", "resolve", f.pkg.Imports[f.i], f.pkg.Dir))
              /\ UNCHANGED ret
    /\ UNCHANGED <<imports, packages, dependencies, pmu, mu, call, log, visited>>

\* line 70-75, and line 88 when the imports are exhausted
ImportLoop(t) ==
    /\ Running(t, "Import", "loop")
    /\ LET f == Top(t) IN
       IF f.i > Len(f.pkg.Imports)
         THEN Return(t, [NoRet EXCEPT !.pkg = f.pkg])
       ELSE IF f.pkg.Imports[f.i] = Sentinel
         THEN /\ SetTop(t, [f EXCEPT !.i = f.i + 1])
              /\ UNCHANGED ret
       ELSE /\ Push(t, [f EXCEPT !.pc = "called"],
                    Frame("Import", "resolve", f.pkg.Imports[f.i], f.pkg.Dir))
            /\ UNCHANGED ret
    /\ UNCHANGED <<imports, packages, dependencies, pmu, mu, call, log, visited>>

\* Import with the error of an import skipped over (continue for return)
ImportCalledContinue(t) ==
    /\ Running(t, "Import", "called")
    /\ IF ret[t].err # NoErr
         THEN SetTop(t, [Top(t) EXCEPT !.i = @ + 1, !.pc = "loop"])
         ELSE SetTop(t, [Top(t) EXCEPT !.imp = ret[t].pkg.ImportPath,
                                       !.pc = "edgeLock"])
    /\ ret' = [ret EXCEPT ![t] = NoRet]
    /\ UNCHANGED <<imports, packages, dependencies, pmu, mu, call, log, visited>>

\* Import that takes the package out of the cache again when one of its
\* imports fails
ImportCalledEvict(t) ==
    /\ Running(t, "Import", "called")
    /\ IF ret[t].err # NoErr
         THEN /\ Return(t, [NoRet EXCEPT !.err = ret[t].err])
              /\ packages' = [p \in DOMAIN packages \ {Top(t).pkg.ImportPath}
                                 |-> packages[p]]
         ELSE /\ SetTop(t, [Top(t) EXCEPT !.imp = ret[t].pkg.ImportPath,
                                          !.pc = "edgeLock"])
              /\ ret' = [ret EXCEPT ![t] = NoRet]
              /\ UNCHANGED packages
    /\ UNCHANGED <<imports, dependencies, pmu, mu, call, log, visited>>

\* line 75-78: the recursive call has returned
ImportCalled(t) ==
    /\ Running(t, "Import", "called")
    /\ IF ret[t].err # NoErr
         THEN Return(t, [NoRet EXCEPT !.err = ret[t].err])
         ELSE /\ SetTop(t, [Top(t) EXCEPT !.imp = ret[t].pkg.ImportPath,
                                          !.pc = "edgeLock"])
              /\ ret' = [ret EXCEPT ![t] = NoRet]
    /\ UNCHANGED <<imports, packages, dependencies, pmu, mu, call, log, visited>>

\* line 80
ImportEdgeLock(t) ==
    /\ Running(t, "Import", "edgeLock")
    /\ mu = Nil
    /\ mu' = t
    /\ SetTop(t, [Top(t) EXCEPT !.pc = "edge"])
    /\ UNCHANGED <<imports, packages, dependencies, pmu, ret, call, log, visited>>

\* the edge insertion without line 85: m.mu is never unlocked
ImportEdgeNoUnlock(t) ==
    /\ Running(t, "Import", "edge")
    /\ mu = t
    /\ dependencies' = AddEdge(dependencies, Top(t).pkg.ImportPath, Top(t).imp)
    /\ SetTop(t, [Top(t) EXCEPT !.imp = Nil, !.i = @ + 1, !.pc = "loop"])
    /\ UNCHANGED <<imports, packages, pmu, mu, ret, call, log, visited>>

\* line 81-85, and back to the head of the loop
ImportEdge(t) ==
    /\ Running(t, "Import", "edge")
    /\ mu = t
    /\ mu' = Nil
    /\ dependencies' = AddEdge(dependencies, Top(t).pkg.ImportPath, Top(t).imp)
    /\ SetTop(t, [Top(t) EXCEPT !.imp = Nil, !.i = @ + 1, !.pc = "loop"])
    /\ UNCHANGED <<imports, packages, pmu, ret, call, log, visited>>

----------------------------------------------------------------------------
\* DependencyManager.Get

\* line 92-95
GetFind(t) ==
    /\ Running(t, "Get", "find")
    /\ LET f == Top(t)
           r == BuildImport(f.path, f.srcDir, TRUE) IN
       /\ log' = [log EXCEPT ![t] = Append(@, LogEntry(f.path, f.srcDir, TRUE))]
       /\ IF r.err # NoErr
            THEN Return(t, [NoRet EXCEPT !.err = r.err])
            ELSE /\ SetTop(t, [f EXCEPT !.pkg = r.pkg, !.pc = "cacheLock"])
                 /\ UNCHANGED ret
    /\ UNCHANGED <<imports, packages, dependencies, pmu, mu, call, visited>>

\* line 97, in PackageCache.Get line 31
GetCacheLock(t) ==
    /\ Running(t, "Get", "cacheLock")
    /\ pmu = Nil
    /\ pmu' = t
    /\ SetTop(t, [Top(t) EXCEPT !.pc = "cacheGet"])
    /\ UNCHANGED <<imports, packages, dependencies, mu, ret, call, log, visited>>

\* Get that calls Import whether the package is cached or not
GetCacheGetAlwaysImport(t) ==
    /\ Running(t, "Get", "cacheGet")
    /\ pmu = t
    /\ pmu' = Nil
    /\ LET f == Top(t) IN
       Push(t, [f EXCEPT !.pkg = NoPkg, !.pc = "called"],
            Frame("Import", "resolve", f.path, f.srcDir))
    /\ UNCHANGED <<imports, packages, dependencies, mu, ret, call, log, visited>>

\* PackageCache.Get line 32-34, then line 98-99
GetCacheGet(t) ==
    /\ Running(t, "Get", "cacheGet")
    /\ pmu = t
    /\ pmu' = Nil
    /\ LET f == Top(t)
           c == CacheLookup(f.pkg.ImportPath) IN
       IF c.ok
         THEN SetTop(t, [f EXCEPT !.pkg = c.pkg, !.pc = "depsLock"])
         ELSE Push(t, [f EXCEPT !.pkg = NoPkg, !.pc = "called"],
                   Frame("Import", "resolve", f.path, f.srcDir))
    /\ UNCHANGED <<imports, packages, dependencies, mu, ret, call, log, visited>>

\* line 99-103: the full Import has returned
GetCalled(t) ==
    /\ Running(t, "Get", "called")
    /\ IF ret[t].err # NoErr
         THEN Return(t, [NoRet EXCEPT !.err = ret[t].err])
         ELSE /\ SetTop(t, [Top(t) EXCEPT !.pkg = ret[t].pkg, !.pc = "depsLock"])
              /\ ret' = [ret EXCEPT ![t] = NoRet]
    /\ UNCHANGED <<imports, packages, dependencies, pmu, mu, call, log, visited>>

\* line 105
GetDepsLock(t) ==
    /\ Running(t, "Get", "depsLock")
    /\ mu = Nil
    /\ mu' = t
    /\ SetTop(t, [Top(t) EXCEPT !.pc = "deps"])
    /\ UNCHANGED <<imports, packages, dependencies, pmu, ret, call, log, visited>>

\* line 106-117: the keys of the package's edge set, under the lock
GetDeps(t) ==
    /\ Running(t, "Get", "deps")
    /\ mu = t
    /\ mu' = Nil
    /\ Return(t, [NoRet EXCEPT !.pkg = Top(t).pkg,
                               !.deps = EdgesOf(Top(t).pkg.ImportPath)])
    /\ UNCHANGED <<imports, packages, dependencies, pmu, call, log, visited>>

----------------------------------------------------------------------------
\* DependencyManager.addDeps and CoundDepsRecursive.  The filter keep is the
\* set of the paths it accepts (call[t].keep); visited[t] is the map deps.

\* a filter that is never consulted
KeptAlways(t, path) == TRUE

\* line 121: keep(path)
Kept(t, path) == path \in call[t].keep

\* a visited check that never finds the path
SeenNever(t, path) == FALSE

\* line 124: _, ok := deps[path]
Seen(t, path) == path \in visited[t]

\* a count of the dependencies without the root itself
CountResultWithoutRoot(t) == Cardinality(visited[t] \ {call[t].path})

\* line 136: len(deps)
CountResult(t) == Cardinality(visited[t])

\* line 134-135
CountStart(t) ==
    /\ Running(t, "Count", "start")
    /\ visited' = [visited EXCEPT ![t] = {}]
    /\ Push(t, [Top(t) EXCEPT !.pc = "called"],
             Frame("addDeps", "enter", Top(t).path, <<>>))
    /\ UNCHANGED <<imports, packages, dependencies, pmu, mu, ret, call, log>>

\* addDeps with the filter applied to the node alone: a path that fails keep
\* is not marked and its dependencies are still visited
AddDepsEnterNoPrune(t) ==
    /\ Running(t, "addDeps", "enter")
    /\ LET f == Top(t) IN
       IF Seen(t, f.path)
         THEN Return(t, NoRet) /\ UNCHANGED visited
       ELSE /\ visited' = [visited EXCEPT
                             ![t] = IF Kept(t, f.path) THEN @ \cup {f.path} ELSE @]
            /\ SetTop(t, [f EXCEPT !.pc = "range", !.rest = EdgesOf(f.path)])
            /\ UNCHANGED ret
    /\ UNCHANGED <<imports, packages, dependencies, pmu, mu, call, log>>

\* addDeps without line 127: the path is never marked
AddDepsEnterNoMark(t) ==
    /\ Running(t, "addDeps", "enter")
    /\ LET f == Top(t) IN
       IF ~Kept(t, f.path) \/ Seen(t, f.path)
         THEN Return(t, NoRet)
         ELSE /\ SetTop(t, [f EXCEPT !.pc = "range", !.rest = EdgesOf(f.path)])
              /\ UNCHANGED ret
    /\ UNCHANGED <<imports, packages, dependencies, pmu, mu, call, log, visited>>

\* line 121-127, and the map that line 128 ranges over
AddDepsEnter(t) ==
    /\ Running(t, "addDeps", "enter")
    /\ LET f == Top(t) IN
       IF ~Kept(t, f.path)
         THEN Return(t, NoRet) /\ UNCHANGED visited
       ELSE IF Seen(t, f.path)
         THEN Return(t, NoRet) /\ UNCHANGED visited
       ELSE /\ visited' = [visited EXCEPT ![t] = @ \cup {f.path}]
            /\ SetTop(t, [f EXCEPT !.pc = "range", !.rest = EdgesOf(f.path)])
            /\ UNCHANGED ret
    /\ UNCHANGED <<imports, packages, dependencies, pmu, mu, call, log>>

\* line 128-131: the next key of the map, in any order, or the return.  The
\* map is read with no lock held: rest is what is left of the keys it held at
\* the start of the range, and a key that another thread has inserted since
\* is produced, or not, as the iteration happens to find it.
AddDepsRange(t) ==
    /\ Running(t, "addDeps", "range")
    /\ LET f == Top(t) IN
         \/ /\ f.rest = {}
            /\ Return(t, NoRet)
         \/ /\ \E im \in f.rest \cup (EdgesOf(f.path) \ f.done) :
                   Push(t, [f EXCEPT !.rest = @ \ {im}, !.done = @ \cup {im}],
                        Frame("addDeps", "enter", im, <<>>))
            /\ UNCHANGED ret
    /\ UNCHANGED <<imports, packages, dependencies, pmu, mu, call, log, visited>>

\* line 136
CountReturn(t) ==
    /\ Running(t, "Count", "called")
    /\ Return(t, [NoRet EXCEPT !.n = CountResult(t)])
    /\ UNCHANGED <<imports, packages, dependencies, pmu, mu, call, log, visited>>

----------------------------------------------------------------------------
\* A session: a thread with no call in progress makes its next call.

Idle(t) == stack[t] = <<>>

\* what a call remembers of the call its thread made before it: nothing,
\* unless both are Imports of the same path, and then what the first returned
NoPrev == [again |-> FALSE, pkg |-> NoPkg, err |-> NoErr]
PrevImport(t, path) ==
    IF call[t].fn = "Import" /\ call[t].path = path
      THEN [again |-> TRUE, pkg |-> ret[t].pkg, err |-> ret[t].err]
      ELSE NoPrev

\* a top-level Import(path, cwd)
CallImport(t) ==
    /\ Idle(t)
    /\ \E path \in RootIds :
         /\ stack' = [stack EXCEPT ![t] = <<Frame("Import", "resolve", path, Cwd)>>]
         /\ call' = [call EXCEPT ![t] = [fn |-> "Import", path |-> path, keep |-> {},
                                         prev |-> PrevImport(t, path)]]
    /\ ret' = [ret EXCEPT ![t] = NoRet]
    /\ log' = [log EXCEPT ![t] = <<>>]
    /\ UNCHANGED <<imports, packages, dependencies, pmu, mu, visited>>

\* a top-level Get(path, cwd), as main makes it (line 168)
CallGet(t) ==
    /\ Idle(t)
    /\ \E path \in RootIds :
         /\ stack' = [stack EXCEPT ![t] = <<Frame("Get", "find", path, Cwd)>>]
         /\ call' = [call EXCEPT ![t] = [fn |-> "Get", path |-> path, keep |-> {},
                                         prev |-> NoPrev]]
    /\ ret' = [ret EXCEPT ![t] = NoRet]
    /\ log' = [log EXCEPT ![t] = <<>>]
    /\ UNCHANGED <<imports, packages, dependencies, pmu, mu, visited>>

Init ==
    /\ imports \in SourceTrees
    /\ packages = EmptyMap
    /\ dependencies = EmptyMap
    /\ pmu = Nil
    /\ mu = Nil
    /\ stack = [t \in Threads |-> <<>>]
    /\ ret = [t \in Threads |-> NoRet]
    /\ call = [t \in Threads |-> [fn |-> Nil, path |-> Nil, keep |-> {}, prev |-> NoPrev]]
    /\ log = [t \in Threads |-> <<>>]
    /\ visited = [t \in Threads |-> {}]

Next ==
    \E t \in Threads :
        \/ CallImport(t)
        \/ CallGet(t)
        \/ ImportResolve(t)
        \/ ImportCacheLock(t)
        \/ ImportCacheGet(t)
        \/ ImportPutLock(t)
        \/ ImportPut(t)
        \/ ImportLoop(t)
        \/ ImportCalled(t)
        \/ ImportEdgeLock(t)
        \/ ImportEdge(t)
        \/ GetFind(t)
        \/ GetCacheLock(t)
        \/ GetCacheGet(t)
        \/ GetCalled(t)
        \/ GetDepsLock(t)
        \/ GetDeps(t)

Spec == Init /\ [][Next]_vars

----------------------------------------------------------------------------
\* The count alone, over every edge table that Import can have built.

\* the identifiers of the edge tables; E is a fourth package
Nodes == Pkgs \cup {"E"}

\* the most edges an edge table of SpecCount holds
MaxEdges == 4

EdgeSets == {E \in SUBSET (Nodes \X Nodes) : Cardinality(E) <= MaxEdges}

\* the table line 81-84 builds from the edges E: a key for every package
\* that has an edge, and no empty entry
TableOf(E) == [k \in {e[1] : e \in E} |-> {e[2] : e \in {x \in E : x[1] = k}}]

RECURSIVE SetToSeq(_)
SetToSeq(S) ==
    IF S = {} THEN <<>>
    ELSE LET x == CHOOSE y \in S : TRUE IN <<x>> \o SetToSeq(S \ {x})

\* CoundDepsRecursive(path, keep) has been called on the state that resolving
\* the packages of an edge table without error leaves
InitCount ==
    /\ \E E \in EdgeSets :
         /\ dependencies = TableOf(E)
         /\ imports = [p \in Nodes |-> SetToSeq({e[2] : e \in {x \in E : x[1] = p}})]
         /\ packages = [p \in {e[1] : e \in E} \cup {e[2] : e \in E} |->
                          Descriptor(p, SetToSeq({e[2] : e \in {x \in E : x[1] = p}}))]
    /\ pmu = Nil
    /\ mu = Nil
    /\ \E path \in Nodes, keep \in SUBSET Nodes :
         /\ stack = [t \in Threads |-> <<Frame("Count", "start", path, <<>>)>>]
         /\ call = [t \in Threads |-> [fn |-> "Count", path |-> path, keep |-> keep,
                                      prev |-> NoPrev]]
    /\ ret = [t \in Threads |-> NoRet]
    /\ log = [t \in Threads |-> <<>>]
    /\ visited = [t \in Threads |-> {}]

NextCount ==
    \E t \in Threads :
        \/ CountStart(t)
        \/ AddDepsEnter(t)
        \/ AddDepsRange(t)
        \/ CountReturn(t)

SpecCount == InitCount /\ [][NextCount]_vars

----------------------------------------------------------------------------
\* CoundDepsRecursive: what it returns (checked under SpecCount).

\* the count of thread t has returned
Done(t) == stack[t] = <<>> /\ call[t].fn = "Count"

\* R and the nodes a keep-passing edge of the table reaches from R, k times over
RECURSIVE KeepClosure(_, _, _)
KeepClosure(R, keep, k) ==
    IF k = 0 THEN R
    ELSE KeepClosure(R \cup {m \in keep : \E n \in R : m \in EdgesOf(n)}, keep, k - 1)

\* the nodes n with a path root = n0 -> ... -> nk = n in the table whose every
\* node, root and n included, passes keep (a path repeats no node, so it has
\* fewer edges than there are nodes)
KeepReach(root, keep) == KeepClosure({root} \cap keep, keep, Cardinality(Nodes))

\* every identifier of the edge table, keys and members
TableIds == DOMAIN dependencies \cup UNION {dependencies[k] : k \in DOMAIN dependencies}

\* C2: the count is the number of distinct nodes that a path from the root
\* reaches on which every node, the root and the end included, passes keep.
C2_CountIsKeepReachable ==
    \A t \in Threads :
        Done(t) => ret[t].n = Cardinality(KeepReach(call[t].path, call[t].keep))

\* C2's case: a count of 3 where the table reaches 4 nodes and the filter cuts one
C2_Witness ==
    \E t \in Threads :
        /\ Done(t)
        /\ ret[t].n = 3
        /\ Cardinality(KeepReach(call[t].path, Nodes)) = 4

\* the chain A -> B -> D of the subtree-pruning example
ChainTable == TableOf({<<"A", "B">>, <<"B", "D">>})

\* C3: a node that fails keep is not counted and not descended through: a
\* node whose every path from the root meets a keep-failing node is not
\* counted, even when it passes keep; on A -> B -> D with keep(B) false and
\* keep(A), keep(D) true the count is 1 and counts neither B nor D.
C3_PrunedSubtreeNotCounted ==
    \A t \in Threads :
        Done(t) =>
            /\ \A n \in Nodes :
                   n \notin KeepReach(call[t].path, call[t].keep) => n \notin visited[t]
            /\ visited[t] \subseteq call[t].keep
            /\ ( /\ dependencies = ChainTable
                 /\ call[t].path = "A"
                 /\ {"A", "D"} \subseteq call[t].keep
                 /\ "B" \notin call[t].keep )
               => ret[t].n = 1 /\ visited[t] = {"A"}

\* C3's case: the chain, counted from A with B filtered out and D kept
C3_Witness ==
    \E t \in Threads :
        /\ Done(t)
        /\ dependencies = ChainTable
        /\ call[t].path = "A"
        /\ call[t].keep = Nodes \ {"B"}
        /\ ret[t].n = 1

\* the diamond A -> B, A -> D, B -> E, D -> E
DiamondTable ==
    TableOf({<<"A", "B">>, <<"A", "D">>, <<"B", "E">>, <<"D", "E">>})

\* addDeps goes on to a path's dependencies only when the path was not in deps
\* before, and a path once in deps stays in it
DescendsOnce(t) ==
    /\ (Running(t, "addDeps", "enter") /\ Depth(t)' = Depth(t)) =>
           (Top(t).path \notin visited[t] /\ Top(t).path \in visited'[t])
    /\ (Depth(t) > 0 /\ Top(t).fn = "addDeps") => visited[t] \subseteq visited'[t]

\* C4: a node is counted once however many paths lead to it: the diamond
\* counts 4 under the always-true filter, the count never exceeds the number
\* of distinct identifiers of the table and the root, and addDeps descends
\* into a node at most once.
C4_CountedOnce ==
    /\ [](\A t \in Threads :
            Done(t) =>
              /\ ret[t].n <= Cardinality(TableIds \cup {call[t].path})
              /\ (dependencies = DiamondTable /\ call[t].path = "A"
                    /\ call[t].keep = Nodes) => ret[t].n = 4)
    /\ [][\A t \in Threads : DescendsOnce(t)]_vars

\* C4's case: the diamond counted from A with every node kept
C4_Witness ==
    \E t \in Threads :
        /\ Done(t)
        /\ dependencies = DiamondTable
        /\ call[t].path = "A"
        /\ call[t].keep = Nodes
        /\ ret[t].n = 4

\* what a frame of the count has left to do, its callees apart
CountFrameWeight(f) ==
    CASE f.fn = "Count" /\ f.pc = "start"    -> 3
      [] f.fn = "Count" /\ f.pc = "called"   -> 1
      [] f.fn = "addDeps" /\ f.pc = "enter"  -> 1
      [] f.fn = "addDeps" /\ f.pc = "range"  -> 2 * Cardinality(f.rest) + 1
      [] OTHER -> 0

RECURSIVE SumWeights(_, _)
SumWeights(st, k) ==
    IF k = 0 THEN 0 ELSE CountFrameWeight(st[k]) + SumWeights(st, k - 1)

\* a number that every step of a count makes smaller: the nodes not yet
\* marked, each worth more than a frame can cost, and the frames' work
CountMeasure(t) ==
    (2 * Cardinality(Nodes) + 1) * Cardinality(Nodes \ visited[t])
        + SumWeights(stack[t], Depth(t))

\* C5: a count terminates on every finite table, cyclic ones included: every
\* step of it lowers a natural number, a count that has not returned can
\* step, and a path is marked before its dependencies are visited and never
\* descended into twice.
C5_CountTerminates ==
    /\ [][\A t \in Threads : CountMeasure(t)' < CountMeasure(t) /\ DescendsOnce(t)]_vars
    /\ [](\A t \in Threads : stack[t] # <<>> => ENABLED NextCount)

\* C5's case: a count that returned after visiting a self-loop and a 2-cycle
C5_Witness ==
    \E t \in Threads :
        /\ Done(t)
        /\ \E n \in visited[t] : n \in EdgesOf(n)
        /\ \E a, b \in visited[t] : a # b /\ b \in EdgesOf(a) /\ a \in EdgesOf(b)

\* C6: the count is 0 when the root fails keep, whatever the root depends on.
C6_FilteredRootCountsZero ==
    \A t \in Threads :
        (Done(t) /\ call[t].path \notin call[t].keep) =>
            ret[t].n = 0 /\ visited[t] = {}

\* C6's case: a filtered-out root with a dependency that passes keep
C6_Witness ==
    \E t \in Threads :
        /\ Done(t)
        /\ call[t].path \notin call[t].keep
        /\ EdgesOf(call[t].path) \cap call[t].keep # {}
        /\ ret[t].n = 0

\* C7: the count is at least 1 when the root passes keep, and exactly 1 when
\* the root has no dependencies in the table.
C7_KeptRootCounted ==
    \A t \in Threads :
        (Done(t) /\ call[t].path \in call[t].keep) =>
            /\ ret[t].n >= 1
            /\ EdgesOf(call[t].path) = {} => ret[t].n = 1

\* C7's case: a kept root with no entry in a table that has entries
C7_Witness ==
    \E t \in Threads :
        /\ Done(t)
        /\ call[t].path \in call[t].keep
        /\ call[t].path \notin DOMAIN dependencies
        /\ dependencies # EmptyMap
        /\ ret[t].n = 1

----------------------------------------------------------------------------
\* Concurrent use: the manager is shared by two threads, each making one
\* top-level call of Import or Get on a fresh manager; their steps interleave
\* in any order, a Lock waiting for the mutex to be free.

ConcThreads == {"t1", "t2"}

\* the source trees of the concurrent runs: the packages A and B import one
\* another or a path that names no package; D imports nothing
ConcIds == {"A", "B", "X"}
ConcTrees ==
    {tr \in SourceTrees :
        /\ tr["D"] = <<>>
        /\ \A p \in {"A", "B"} : \A i \in DOMAIN tr[p] : tr[p][i] \in ConcIds}

\* what the two threads ask for
ConcRoots == {"A", "B"}

\* thread t has not made its call yet
NotCalled(t) == call[t].fn = Nil

\* one step of thread t inside Import or Get
ImportGetStep(t) ==
    \/ ImportResolve(t)
    \/ ImportCacheLock(t)
    \/ ImportCacheGet(t)
    \/ ImportPutLock(t)
    \/ ImportPut(t)
    \/ ImportLoop(t)
    \/ ImportCalled(t)
    \/ ImportEdgeLock(t)
    \/ ImportEdge(t)
    \/ GetFind(t)
    \/ GetCacheLock(t)
    \/ GetCacheGet(t)
    \/ GetCalled(t)
    \/ GetDepsLock(t)
    \/ GetDeps(t)

InitConc ==
    /\ imports \in ConcTrees
    /\ packages = EmptyMap
    /\ dependencies = EmptyMap
    /\ pmu = Nil
    /\ mu = Nil
    /\ stack = [t \in ConcThreads |-> <<>>]
    /\ ret = [t \in ConcThreads |-> NoRet]
    /\ call = [t \in ConcThreads |-> [fn |-> Nil, path |-> Nil, keep |-> {}, prev |-> NoPrev]]
    /\ log = [t \in ConcThreads |-> <<>>]
    /\ visited = [t \in ConcThreads |-> {}]

NextConc ==
    \E t \in ConcThreads :
        \/ NotCalled(t) /\ CallImport(t) /\ call'[t].path \in ConcRoots
        \/ NotCalled(t) /\ CallGet(t) /\ call'[t].path \in ConcRoots
        \/ ImportGetStep(t)

SpecConc == InitConc /\ [][NextConc]_vars

\* the scheduler keeps running a goroutine that can run: a thread whose next
\* step stays possible takes it (a thread waiting at a Lock is not promised
\* the mutex while others keep taking it)
SpecConcFair == SpecConc /\ \A t \in ConcThreads : WF_vars(ImportGetStep(t))

----------------------------------------------------------------------------
\* Concurrent use with counts: each of the two threads makes one call of
\* Import, Get or CoundDepsRecursive.  addDeps reads m.dependencies with no
\* lock held (line 128), so a count that runs while an Import inserts an edge
\* is a data race: the count sees the new key or not (AddDepsRange), or the
\* Go runtime detects the race and ends the process (FatalRace).

\* the filters main passes (line 153-160): every path, or every path but
\* those of the standard packages, of which B is taken to be one
CountKeeps == {Pkgs, Pkgs \ {"B"}}

\* a top-level CoundDepsRecursive(path, keep), as main makes it (line 179)
CallCount(t) ==
    /\ Idle(t)
    /\ \E path \in ConcRoots, keep \in CountKeeps :
         /\ stack' = [stack EXCEPT ![t] = <<Frame("Count", "start", path, <<>>)>>]
         /\ call' = [call EXCEPT ![t] = [fn |-> "Count", path |-> path, keep |-> keep,
                                         prev |-> NoPrev]]
    /\ ret' = [ret EXCEPT ![t] = NoRet]
    /\ log' = [log EXCEPT ![t] = <<>>]
    /\ UNCHANGED <<imports, packages, dependencies, pmu, mu, visited>>

Fatal == Frame("fatal", "exit", Nil, <<>>)

\* thread u is inside line 81-84, writing the entry of package p
Writing(u, p) == Running(u, "Import", "edge") /\ Top(u).pkg.ImportPath = p

\* "fatal error: concurrent map read and map write" (or "concurrent map
\* iteration and map write"): thread t reads m.dependencies at line 128 while
\* another thread is making a new entry in it, or goes on with its range
\* over an entry while another thread is inserting into that entry; the
\* process ends with every call unfinished
FatalRace(t) ==
    /\ \E u \in DOMAIN stack \ {t} :
          \/ /\ Running(t, "addDeps", "enter")
             /\ Kept(t, Top(t).path) /\ ~Seen(t, Top(t).path)
             /\ Running(u, "Import", "edge")
             /\ Top(u).pkg.ImportPath \notin DOMAIN dependencies
          \/ /\ Running(t, "addDeps", "range")
             /\ Writing(u, Top(t).path)
    /\ stack' = [x \in DOMAIN stack |-> <<Fatal>>]
    /\ UNCHANGED <<imports, packages, dependencies, pmu, mu, ret, call, log, visited>>

NextRace ==
    \E t \in ConcThreads :
        \/ NotCalled(t) /\ CallImport(t) /\ call'[t].path \in ConcRoots
        \/ NotCalled(t) /\ CallGet(t) /\ call'[t].path \in ConcRoots
        \/ NotCalled(t) /\ CallCount(t)
        \/ ImportGetStep(t)
        \/ CountStart(t)
        \/ AddDepsEnter(t)
        \/ AddDepsRange(t)
        \/ CountReturn(t)
        \/ FatalRace(t)

SpecRace == InitConc /\ [][NextRace]_vars

----------------------------------------------------------------------------
\* Import and Get: the graph they build (checked under Spec).

\* the resolver resolves path from srcDir without error
Resolvable(path, srcDir) == BuildImport(path, srcDir, FALSE).err = NoErr

\* the import statements of package p, the cgo pseudo-package apart
ImportsOf(p) == {imports[p][i] : i \in DOMAIN imports[p]} \ {Sentinel}

\* the canonical paths of the packages p imports directly
DirectImports(p) ==
    {Locate(im, Dir(p)) : im \in {x \in ImportsOf(p) : Resolvable(x, Dir(p))}}

RECURSIVE ImportClosure(_, _)
ImportClosure(R, k) ==
    IF k = 0 THEN R
    ELSE ImportClosure(R \cup UNION {DirectImports(p) : p \in R}, k - 1)

\* the packages reachable from package p by import statements, p included
Reach(p) == ImportClosure({p}, Cardinality(Pkgs))

\* every import statement of every package reachable from p resolves
AllResolve(p) == \A q \in Reach(p) : \A im \in ImportsOf(q) : Resolvable(im, Dir(q))

\* the top-level call of thread t has returned
Returned(t, fn) == Idle(t) /\ call[t].fn = fn

\* what a frame of Import or Get has left to do, its callees apart: 7 steps
\* for each import still to come (3 of them the callee's when the import is
\* cached) and the steps before the loop
LoopWeight(f, i) == 7 * (Len(f.pkg.Imports) + 1 - i) + 1

ImportFrameWeight(f) ==
    CASE f.fn = "Import" /\ f.pc = "resolve"   -> 3
      [] f.fn = "Import" /\ f.pc = "cacheLock" -> 2
      [] f.fn = "Import" /\ f.pc = "cacheGet"  -> 1
      [] f.fn = "Import" /\ f.pc = "putLock"   -> 2 + LoopWeight(f, 1)
      [] f.fn = "Import" /\ f.pc = "put"       -> 1 + LoopWeight(f, 1)
      [] f.fn = "Import" /\ f.pc = "loop"      -> LoopWeight(f, f.i)
      [] f.fn = "Import" /\ f.pc = "called"    -> 3 + LoopWeight(f, f.i + 1)
      [] f.fn = "Import" /\ f.pc = "edgeLock"  -> 2 + LoopWeight(f, f.i + 1)
      [] f.fn = "Import" /\ f.pc = "edge"      -> 1 + LoopWeight(f, f.i + 1)
      [] f.fn = "Get" /\ f.pc = "find"         -> 9
      [] f.fn = "Get" /\ f.pc = "cacheLock"    -> 8
      [] f.fn = "Get" /\ f.pc = "cacheGet"     -> 7
      [] f.fn = "Get" /\ f.pc = "called"       -> 3
      [] f.fn = "Get" /\ f.pc = "depsLock"     -> 2
      [] f.fn = "Get" /\ f.pc = "deps"         -> 1
      [] OTHER -> 0

RECURSIVE SumImportWeights(_, _)
SumImportWeights(st, k) ==
    IF k = 0 THEN 0 ELSE ImportFrameWeight(st[k]) + SumImportWeights(st, k - 1)

\* the packages that thread t may still come to expand: not cached, and not
\* in a frame of t that is about to store them
Unexpanded(t) ==
    {p \in Pkgs :
        /\ p \notin DOMAIN packages
        /\ ~\E k \in 1..Depth(t) :
              /\ stack[t][k].fn = "Import"
              /\ stack[t][k].pc \in {"putLock", "put"}
              /\ stack[t][k].pkg.ImportPath = p}

\* a number that every step of an Import or a Get makes smaller
ImportMeasure(t) ==
    (7 * MaxImports + 3) * Cardinality(Unexpanded(t))
        + SumImportWeights(stack[t], Depth(t))

\* C1: a single-threaded Import terminates on every import graph, cyclic ones
\* included (every step of a call lowers a natural number and a call that has
\* not returned can step), and when every package reachable from the root
\* resolves, it returns without error and the edge set of every reachable
\* package is exactly the set of the canonical paths of its imports other
\* than "C" (read as Go reads the table: a package that imports nothing has
\* no key, which reads as the empty set).
C1_ImportTerminatesWithExactEdges ==
    /\ [][\A t \in Threads :
            (~Idle(t) /\ stack[t]' # stack[t]) => ImportMeasure(t)' < ImportMeasure(t)]_vars
    /\ [](\A t \in Threads : ~Idle(t) => ENABLED Next)
    /\ [](\A t \in Threads :
            ( /\ Returned(t, "Import")
              /\ Resolvable(call[t].path, Cwd)
              /\ AllResolve(Locate(call[t].path, Cwd)) )
            => /\ ret[t].err = NoErr
               /\ ret[t].pkg.ImportPath = Locate(call[t].path, Cwd)
               /\ \A p \in Reach(Locate(call[t].path, Cwd)) :
                      EdgesOf(p) = DirectImports(p))

\* C1's case: Import("A") has returned on the cycle A -> B -> A
C1_Witness ==
    \E t \in Threads :
        /\ Returned(t, "Import")
        /\ call[t].path = "A"
        /\ imports["A"] = <<"B">>
        /\ imports["B"] = <<"A">>
        /\ ret[t].err = NoErr
        /\ dependencies["A"] = {"B"}
        /\ dependencies["B"] = {"A"}

\* the resolver calls of thread t's top-level call that failed
FailedAt(t) == {k \in DOMAIN log[t] : log[t][k].err # NoErr}

\* C8: when the resolver fails in an Import, at the top or at any nested
\* import, nothing more is passed to the resolver (no sibling that comes after
\* the failing import), and every call on the stack returns that first error
\* unchanged, with no descriptor; an error returned is a resolver's.
C8_FirstErrorReturned ==
    \A t \in Threads :
        /\ FailedAt(t) # {} =>
              /\ FailedAt(t) = {Len(log[t])}
              /\ ret[t].err = log[t][Len(log[t])].err
              /\ ret[t].pkg = NoPkg
              /\ ret[t].deps = {}
        /\ ret[t].err # NoErr => FailedAt(t) # {}

\* C8's case: an Import whose first import fails and whose second, a package,
\* was never passed to the resolver
C8_Witness ==
    \E t \in Threads :
        /\ Returned(t, "Import")
        /\ call[t].path \in Pkgs
        /\ Len(imports[call[t].path]) = 2
        /\ imports[call[t].path][1] = "X"
        /\ imports[call[t].path][2] \in Pkgs \ {call[t].path}
        /\ Len(log[t]) = 2
        /\ ret[t].err = Err("NotFound", "X", Dir(call[t].path))
        /\ ret[t].pkg = NoPkg

\* C9: whenever a Get or an Import returns without error, the edge set of the
\* returned package and of every package reachable from it holds the
\* canonical path of every import other than "C" (of those that resolve).
C9_NoPartialGraph ==
    \A t \in Threads :
        ( /\ Returned(t, "Import") \/ Returned(t, "Get")
          /\ ret[t].err = NoErr )
        => \A p \in Reach(ret[t].pkg.ImportPath) : DirectImports(p) \subseteq EdgesOf(p)

\* C10 as stated: a package has an entry in the edge table only if every one
\* of its imports (other than "C") is in the package cache.
C10_EntryOnlyAfterAllImports ==
    \A p \in DOMAIN dependencies : DirectImports(p) \subseteq DOMAIN packages

\* C10 amended: a package has an entry only if it is in the package cache
\* itself, and every member of its entry is the canonical path of one of its
\* imports that is in the package cache; the entry is never empty.
C10_EntryMembersResolved ==
    \A p \in DOMAIN dependencies :
        /\ p \in DOMAIN packages
        /\ dependencies[p] # {}
        /\ dependencies[p] \subseteq DOMAIN packages
        /\ dependencies[p] \subseteq DirectImports(p)

\* C10's case: a package with an entry and an import that is not yet cached
C10_Witness ==
    \E p \in DOMAIN dependencies :
        \E q \in DirectImports(p) : q \notin DOMAIN packages /\ q \notin dependencies[p]

----------------------------------------------------------------------------
\* The cgo pseudo-package "C".

\* C11: the import "C" is skipped: it is never passed to the resolver, it is
\* never a key of the cache, a key of the edge table or a member of an edge
\* set, and it raises no error: an Import returns without error whenever the
\* imports other than "C" of every package it reaches resolve.
C11_SentinelSkipped ==
    /\ Sentinel \notin DOMAIN packages
    /\ Sentinel \notin DOMAIN dependencies
    /\ \A p \in DOMAIN dependencies : Sentinel \notin dependencies[p]
    /\ \A t \in Threads :
          /\ \A k \in DOMAIN log[t] : log[t][k].path # Sentinel
          /\ ( /\ Returned(t, "Import")
               /\ Resolvable(call[t].path, Cwd)
               /\ AllResolve(Locate(call[t].path, Cwd)) )
             => ret[t].err = NoErr

\* C11's case: Import("A") has returned where A imports "C" and a package
C11_Witness ==
    \E t \in Threads :
        /\ Returned(t, "Import")
        /\ call[t].path = "A"
        /\ imports["A"] = <<Sentinel, "B">>
        /\ ret[t].err = NoErr
        /\ ret[t].pkg.Imports = <<Sentinel, "B">>
        /\ dependencies["A"] = {"B"}
        /\ Len(log[t]) = 2

----------------------------------------------------------------------------
\* Concurrent calls (checked under SpecConc).

\* every thread has made its call, and the call has returned without error
AllReturnedOK ==
    \A t \in DOMAIN stack :
        /\ Returned(t, "Import") \/ Returned(t, "Get")
        /\ ret[t].err = NoErr

\* the packages reachable from the packages the calls returned
ReachOfCalls == UNION {Reach(ret[t].pkg.ImportPath) : t \in DOMAIN stack}

\* C12: when the concurrent top-level calls of Import and Get have all
\* returned without error, in whatever order their steps interleaved, the
\* cache and the edge table are what the calls made one after another leave:
\* the cache holds exactly the reachable packages, each with its descriptor,
\* and the edge set of each reachable package is exactly the set of the
\* canonical paths of its imports other than "C"; nothing else has an entry.
C12_ConcurrentSameAsSequential ==
    AllReturnedOK =>
        /\ packages = [p \in ReachOfCalls |-> Descriptor(p, imports[p])]
        /\ \A p \in ReachOfCalls : EdgesOf(p) = DirectImports(p)
        /\ DOMAIN dependencies \subseteq ReachOfCalls

\* C12's case: Import("A") and Import("B") ran together on the cycle
\* A -> B -> A, each of them resolving an import of its own, and both returned
C12_Witness ==
    /\ AllReturnedOK
    /\ imports["A"] = <<"B">>
    /\ imports["B"] = <<"A">>
    /\ call["t1"].fn = "Import" /\ call["t1"].path = "A"
    /\ call["t2"].fn = "Import" /\ call["t2"].path = "B"
    /\ Len(log["t1"]) = 2
    /\ Len(log["t2"]) = 2
    /\ dependencies["A"] = {"B"}
    /\ dependencies["B"] = {"A"}

----------------------------------------------------------------------------
\* Concurrent calls and counts (checked under SpecRace).

\* C13: across every interleaving of Import, Get and CoundDepsRecursive calls,
\* no step removes a key from the cache or the edge table, changes a cached
\* descriptor or takes a member out of an edge set (edge sets only grow); a
\* step of a count changes neither structure, and neither does the return of
\* an error.
C13_CacheAndEdgesOnlyGrow ==
    [][ /\ \A p \in DOMAIN packages :
              p \in DOMAIN packages' /\ packages'[p] = packages[p]
        /\ \A p \in DOMAIN dependencies :
              p \in DOMAIN dependencies' /\ dependencies[p] \subseteq dependencies'[p]
        /\ \A t \in DOMAIN stack :
              ( /\ stack'[t] # stack[t]
                /\ \/ ~Idle(t) /\ Top(t).fn \in {"Count", "addDeps"}
                   \/ ret'[t].err # NoErr )
              => UNCHANGED <<packages, dependencies>> ]_vars

\* C13's case: an Import has failed and a count has returned, and the cache
\* and the edge table still hold what the failed Import put in them
C13_Witness ==
    \E t, u \in DOMAIN stack :
        /\ Returned(t, "Import")
        /\ ret[t].err # NoErr
        /\ Len(log[t]) = 3
        /\ Returned(u, "Count")
        /\ ret[u].n = 2
        /\ Cardinality(DOMAIN packages) = 2
        /\ DOMAIN dependencies # {}

----------------------------------------------------------------------------
\* Repeated and cached resolution (checked under Spec).

\* C14: an Import of the path that the thread's previous call imported (from
\* the same directory, Cwd) changes neither the cache nor the edge table at
\* any of its steps, and when the first call returned a descriptor the second
\* returns, without error, a descriptor with the same ImportPath, Dir and
\* Imports.
C14_SecondImportSame ==
    /\ [][\A t \in Threads :
            (~Idle(t) /\ call[t].fn = "Import" /\ call[t].prev.again)
            => UNCHANGED <<packages, dependencies>>]_vars
    /\ [](\A t \in Threads :
            ( /\ Returned(t, "Import")
              /\ call[t].prev.again
              /\ call[t].prev.err = NoErr )
            => /\ ret[t].err = NoErr
               /\ ret[t].pkg.ImportPath = call[t].prev.pkg.ImportPath
               /\ ret[t].pkg.Dir = call[t].prev.pkg.Dir
               /\ ret[t].pkg.Imports = call[t].prev.pkg.Imports)

\* C14's case: the second Import("A") has returned, the first having expanded
\* A and B
C14_Witness ==
    \E t \in Threads :
        /\ Returned(t, "Import")
        /\ call[t].path = "A"
        /\ call[t].prev.again
        /\ call[t].prev.pkg = Descriptor("A", <<"B", Sentinel>>)
        /\ ret[t].pkg = Descriptor("A", <<"B", Sentinel>>)
        /\ Len(log[t]) = 1
        /\ dependencies["A"] = {"B"}

\* thread t's Import frame on top is past line 68, expanding its package
Expanding(f) == f.fn = "Import" /\ f.pc \in {"loop", "called", "edgeLock", "edge"}

\* C15: a package is in the cache, with the descriptor the resolver gave,
\* before any of its imports is resolved: every Import frame past line 68
\* has its package cached, and so has the frame that makes a recursive call.
\* An Import that finds its package cached returns the cached descriptor at
\* that step, without error, storing nothing, calling nothing and adding no
\* edge.
C15_StoredBeforeExpansion ==
    /\ [](\A t \in Threads : \A k \in 1..Depth(t) :
            Expanding(stack[t][k]) =>
                /\ stack[t][k].pkg.ImportPath \in DOMAIN packages
                /\ packages[stack[t][k].pkg.ImportPath] = stack[t][k].pkg)
    /\ [][\A t \in Threads :
            /\ ( /\ ~Idle(t)
                 /\ Top(t).fn = "Import"
                 /\ Len(stack'[t]) = Depth(t) + 1 )
               => /\ Top(t).pkg.ImportPath \in DOMAIN packages
                  /\ stack'[t][Depth(t) + 1].path \in
                        {Top(t).pkg.Imports[i] : i \in DOMAIN Top(t).pkg.Imports}
            /\ ( /\ Running(t, "Import", "cacheGet")
                 /\ Top(t).pkg.ImportPath \in DOMAIN packages
                 /\ stack'[t] # stack[t] )
               => /\ stack'[t] = SubSeq(stack[t], 1, Depth(t) - 1)
                  /\ ret'[t] = [NoRet EXCEPT !.pkg = packages[Top(t).pkg.ImportPath]]
                  /\ UNCHANGED <<packages, dependencies, log>>]_vars

\* C15's case: on the cycle A -> B -> A the Import of B's import "A" has found
\* A cached and returned it, with A and B stored and no edge recorded yet
C15_Witness ==
    \E t \in Threads :
        /\ Depth(t) = 2
        /\ stack[t][1].pkg.ImportPath = "A"
        /\ Running(t, "Import", "called")
        /\ Top(t).pkg.ImportPath = "B"
        /\ ret[t].pkg = packages["A"]
        /\ DOMAIN packages = {"A", "B"}
        /\ dependencies = EmptyMap
        /\ Len(log[t]) = 3

\* thread t's frame f is an Import that has missed the cache: it is about to
\* store its package, or has stored it and is expanding it
Storing(f) == f.fn = "Import" /\ (f.pc \in {"putLock", "put"} \/ Expanding(f))

\* C16: in a single-threaded session Put is executed at most once for a
\* canonical path: the step that stores a package stores one that the cache
\* does not hold, and the cache never loses a key.  A package is expanded
\* only by the call that stored it: a frame starts expanding at its Put and
\* at no other step, and no two frames of the stack are storing or expanding
\* the same package.
C16_PutOncePerPackage ==
    /\ [][\A t \in Threads :
            /\ DOMAIN packages \subseteq DOMAIN packages'
            /\ packages' # packages => Running(t, "Import", "put")
            /\ (Running(t, "Import", "put") /\ stack'[t] # stack[t])
                 => /\ Top(t).pkg.ImportPath \notin DOMAIN packages
                    /\ Top(t).pkg.ImportPath \in DOMAIN packages'
            /\ ( /\ ~Idle(t)
                 /\ ~Expanding(Top(t))
                 /\ Len(stack'[t]) = Depth(t)
                 /\ Expanding(stack'[t][Depth(t)]) )
               => Running(t, "Import", "put")]_vars
    /\ [](\A t \in Threads : \A j, k \in 1..Depth(t) :
            ( /\ j # k
              /\ Storing(stack[t][j])
              /\ Storing(stack[t][k]) )
            => stack[t][j].pkg.ImportPath # stack[t][k].pkg.ImportPath)

\* C16's case: Import("A") has returned where A imports B twice, as "B" and
\* as the vendored path "v": B was resolved twice and stored once
C16_Witness ==
    \E t \in Threads :
        /\ Returned(t, "Import")
        /\ call[t].path = "A"
        /\ ~call[t].prev.again
        /\ imports["A"] = <<"B", "v">>
        /\ Len(log[t]) = 3
        /\ ret[t].err = NoErr
        /\ DOMAIN packages = {"A", "B"}
        /\ dependencies["A"] = {"B"}

\* C17: a Get whose package is cached when it looks it up (line 97) makes no
\* Import: it goes on to read the edge table with the cached descriptor, and
\* from there to its return no step of it changes the cache or the edge
\* table or calls the resolver; it returns that descriptor and exactly the
\* members of the package's edge set as the table holds it at that step (none
\* when the package has no entry).  A Get whose package is not cached calls
\* Import with its own path and directory.  A Get that has returned having
\* made no call of the resolver but its FindOnly one returned the cached
\* descriptor and the current edge set.
C17_GetOfCachedReadsOnly ==
    /\ [][\A t \in Threads :
            /\ (Running(t, "Get", "cacheGet") /\ stack'[t] # stack[t])
                 => IF Top(t).pkg.ImportPath \in DOMAIN packages
                      THEN /\ stack'[t] = [stack[t] EXCEPT ![Depth(t)] =
                                  [Top(t) EXCEPT !.pkg = packages[Top(t).pkg.ImportPath],
                                                 !.pc = "depsLock"]]
                           /\ UNCHANGED <<packages, dependencies, log>>
                      ELSE /\ Len(stack'[t]) = Depth(t) + 1
                           /\ stack'[t][Depth(t) + 1] =
                                  Frame("Import", "resolve", Top(t).path, Top(t).srcDir)
            /\ ( /\ ~Idle(t)
                 /\ Top(t).fn = "Get"
                 /\ Top(t).pc \in {"depsLock", "deps"} )
               => UNCHANGED <<packages, dependencies, log>>
            /\ (Running(t, "Get", "deps") /\ stack'[t] # stack[t])
                 => /\ stack'[t] = SubSeq(stack[t], 1, Depth(t) - 1)
                    /\ ret'[t] = [NoRet EXCEPT
                                    !.pkg = Top(t).pkg,
                                    !.deps = EdgesOf(Top(t).pkg.ImportPath)]]_vars
    /\ [](\A t \in Threads :
            ( /\ Returned(t, "Get")
              /\ ret[t].err = NoErr
              /\ Len(log[t]) = 1 )
            => /\ ret[t].pkg = packages[Locate(call[t].path, Cwd)]
               /\ ret[t].deps = EdgesOf(Locate(call[t].path, Cwd)))

\* C17's case: Get("B") has returned with no call of the resolver but the
\* FindOnly one, B being cached with the entry {A} by an earlier call
C17_Witness ==
    \E t \in Threads :
        /\ Returned(t, "Get")
        /\ call[t].path = "B"
        /\ Len(log[t]) = 1
        /\ ret[t].err = NoErr
        /\ ret[t].pkg = Descriptor("B", <<"A">>)
        /\ ret[t].deps = {"A"}
        /\ dependencies["B"] = {"A"}

----------------------------------------------------------------------------
\* The locks (checked under SpecRace and SpecConc).

\* thread t is about to read m.dependencies: Get's line 108-115, addDeps'
\* lookup of line 128 and each turn of its range over the entry
ReadsEdges(t) ==
    \/ Running(t, "Get", "deps")
    \/ Running(t, "addDeps", "enter") /\ Kept(t, Top(t).path) /\ ~Seen(t, Top(t).path)
    \/ Running(t, "addDeps", "range")

\* thread t is about to read or write m.dependencies, or PackageCache.packages
TouchesEdges(t) == ReadsEdges(t) \/ Running(t, "Import", "edge")
TouchesCache(t) ==
    \/ Running(t, "Import", "cacheGet")
    \/ Running(t, "Import", "put")
    \/ Running(t, "Get", "cacheGet")

\* C18: every step of a thread that reads or writes the edge table, the
\* reads of addDeps included, is taken with m.mu held by that thread, and
\* every step that reads or writes the cache with the cache's mu held by it;
\* no thread reads the edge table while another thread is between the Lock
\* and the Unlock of an edge insertion.
C18_AccessOnlyUnderLock ==
    [][\A t \in DOMAIN stack :
         stack'[t] # stack[t] =>
            /\ TouchesEdges(t) => mu = t
            /\ TouchesCache(t) => pmu = t
            /\ ReadsEdges(t) =>
                  \A u \in DOMAIN stack \ {t} : ~Running(u, "Import", "edge")]_vars

\* the last part of C18 alone: no read of the edge table while another
\* thread is inserting an edge (used to exhibit the race itself)
NoReadWhileWriting ==
    [][\A t \in DOMAIN stack :
         (stack'[t] # stack[t] /\ ReadsEdges(t)) =>
            \A u \in DOMAIN stack \ {t} : ~Running(u, "Import", "edge")]_vars

\* the work left to all the threads together
RECURSIVE SumMeasures(_)
SumMeasures(S) ==
    IF S = {} THEN 0
    ELSE LET t == CHOOSE x \in S : TRUE IN ImportMeasure(t) + SumMeasures(S \ {t})

TotalMeasure == SumMeasures(DOMAIN stack)

\* thread t holds one of the two locks
HoldsLock(t) == pmu = t \/ mu = t

\* C19: a thread holds the cache's lock only at the read or the write of the
\* cache it locked it for, and m.mu only at the edge insertion or at Get's
\* read; it never holds both, and a thread that calls the resolver or has
\* just made a recursive call holds neither (the cache's lock is released in
\* the step of the lookup, before the call that follows it).  No interleaving of two
\* threads' Import and Get calls deadlocks: a thread whose call has not
\* returned can step, or waits for a lock whose holder can step.  Every call
\* returns: each step of a call lowers a natural number, the work left to
\* the threads together, and under the scheduler's fairness a call that is
\* in progress leads to its return.
C19_NoLockAcrossCallsNoDeadlock ==
    /\ [](\A t \in DOMAIN stack :
            /\ pmu = t => \/ Running(t, "Import", "cacheGet")
                           \/ Running(t, "Import", "put")
                           \/ Running(t, "Get", "cacheGet")
            /\ mu = t => Running(t, "Import", "edge") \/ Running(t, "Get", "deps")
            /\ ~(pmu = t /\ mu = t))
    /\ [][\A t \in DOMAIN stack :
            (Len(stack'[t]) > Depth(t) \/ log'[t] # log[t])
               => pmu' # t /\ mu' # t /\ mu # t]_vars
    /\ [](\A t \in DOMAIN stack :
            ~Idle(t) =>
               \/ ENABLED ImportGetStep(t)
               \/ \E u \in DOMAIN stack \ {t} :
                     HoldsLock(u) /\ ENABLED ImportGetStep(u))
    /\ [][\A t \in DOMAIN stack :
            (~Idle(t) /\ stack'[t] # stack[t]) => TotalMeasure' < TotalMeasure]_vars
    /\ \A t \in ConcThreads : (~Idle(t)) ~> Idle(t)

\* C19's case: thread t1 is inside the edge insertion, holding m.mu, and
\* thread t2 waits for m.mu at line 105 of its Get; t2 cannot step, t1 can
C19_Witness ==
    /\ Running("t1", "Import", "edge")
    /\ mu = "t1"
    /\ Running("t2", "Get", "depsLock")
    /\ ~ENABLED ImportGetStep("t2")
    /\ ENABLED ImportGetStep("t1")
    /\ Depth("t1") = 1

\* C20: under concurrent use a Get that has returned without error returned
\* the canonical path of every import of its package other than "C", whether
\* or not another thread's Import of that package was still in progress.
C20_LookupReturnsAllImports ==
    \A t \in DOMAIN stack :
        (Returned(t, "Get") /\ ret[t].err = NoErr)
        => ret[t].deps = DirectImports(ret[t].pkg.ImportPath)

====
